---- MODULE Spec2Model ----
(***************************************************************************)
(* Iterated local search over bitstring problems (sampling/ils.py,         *)
(* sampling/problems.py): the flip-neighbourhood explorer, the hill        *)
(* climber hc, the two-flip perturbation and the ils driver with its       *)
(* trajectory log.                                                         *)
(*                                                                         *)
(* Python lists are indexed from 0; the sequences below are indexed from   *)
(* 1, so position i of the code is element i + 1 of the sequence.          *)
(***************************************************************************)
EXTENDS Integers, Sequences, FiniteSets, TLC

(* ---------------- bounds of the model ---------------- *)
MaxN == 2
MaxItem == 2
MaxBudget == 1

(* ---------------- helpers ---------------- *)
RECURSIVE SumSeq(_)
SumSeq(q) == IF Len(q) = 0 THEN 0 ELSE Head(q) + SumSeq(Tail(q))

RangeList(n) == [k \in 1..n |-> k - 1]

Bitstrings(n) == [1..n -> {0, 1}]

Shuffles(n) == {f \in [1..n -> 0..(n - 1)] : \A a, b \in 1..n : a # b => f[a] # f[b]}

(* A Python object that has no attribute `weight` (only Knapsack.full_eval sets it). *)
NoAttr == -1

Solution(lst, fitness, invalid) ==
    [lst |-> lst, fitness |-> fitness, invalid |-> invalid, weight |-> NoAttr]

(* Placeholder for a local variable that is not bound yet. *)
NoSol == [lst |-> <<>>, fitness |-> -1, invalid |-> TRUE, weight |-> NoAttr]

init_rnd_bitstring(sol, lst) == [sol EXCEPT !.lst = lst, !.invalid = TRUE]

Solution__str__(sol) ==
    <<sol.fitness, IF sol.invalid THEN " (invalid) " ELSE " ", sol.lst>>

(* ---------------- problem instances ---------------- *)
OneMax(n) == [kind |-> "OneMax", n |-> n, c |-> 0, items |-> <<>>, a |-> <<>>]

Knapsack(n, c, items) == [kind |-> "Knapsack", n |-> n, c |-> c, items |-> items, a |-> <<>>]

NumberPartitioning(n, a) == [kind |-> "NPP", n |-> n, c |-> 0, items |-> <<>>, a |-> a]

(* OneMax defines no maximize(); the specification states that it maximizes. *)
OneMax_maximize == TRUE

maximize(p) == IF p.kind = "OneMax" THEN OneMax_maximize ELSE p.kind = "Knapsack"

(* Variant of strictly_better with the comparison turned round. *)
strictly_better_flipped(p, a, b) == IF maximize(p) THEN a < b ELSE a > b

(* Variant of strictly_better that also accepts an equal fitness. *)
strictly_better_or_equal(p, a, b) == IF maximize(p) THEN a >= b ELSE a <= b

strictly_better(p, a, b) == IF maximize(p) THEN a > b ELSE a < b

better_or_equal(p, a, b) == IF maximize(p) THEN a >= b ELSE a <= b

has_flip_delta_eval(p) == p.kind = "OneMax"

(* An exception leaving a call is the call's err field; NoError when the   *)
(* call returns.  When the assertion l == self.n of full_eval fails the    *)
(* solution is left as it was.                                             *)
NoError == ""

OneMax_full_eval(sol) ==
    [err |-> NoError, sol |-> [sol EXCEPT !.fitness = SumSeq(sol.lst), !.invalid = FALSE]]

Knapsack_full_eval(p, sol) ==
    LET l == Len(sol.lst) IN
    IF l # p.n THEN [err |-> "AssertionError", sol |-> sol]
    ELSE LET weight == SumSeq([k \in 1..l |-> sol.lst[k] * p.items[k][3]])
             fitness == IF weight > p.c THEN 0
                        ELSE SumSeq([k \in 1..l |-> sol.lst[k] * p.items[k][2]])
         IN [err |-> NoError,
             sol |-> [sol EXCEPT !.fitness = fitness, !.weight = weight, !.invalid = FALSE]]

NumberPartitioning_full_eval(p, sol) ==
    LET l == Len(sol.lst) IN
    IF l # p.n THEN [err |-> "AssertionError", sol |-> sol]
    ELSE LET cost1 == SumSeq([k \in 1..l |-> IF sol.lst[k] = 0 THEN p.a[k] ELSE 0])
             cost2 == SumSeq([k \in 1..l |-> IF sol.lst[k] = 1 THEN p.a[k] ELSE 0])
         IN [err |-> NoError,
             sol |-> [sol EXCEPT !.fitness = IF cost1 > cost2 THEN cost1 - cost2
                                              ELSE cost2 - cost1,
                                 !.invalid = FALSE]]

full_eval(p, sol) ==
    CASE p.kind = "OneMax" -> OneMax_full_eval(sol)
      [] p.kind = "Knapsack" -> Knapsack_full_eval(p, sol)
      [] OTHER -> NumberPartitioning_full_eval(p, sol)

(* flip_delta_eval returns (improved, delta); sol is the argument after the call. *)
(* Variant of flip_delta_eval with the sign of the delta inverted. *)
flip_delta_eval_inverted(sol, i) ==
    LET delta_fitness == IF sol.lst[i + 1] = 0 THEN -1 ELSE 1
    IN [improved |-> delta_fitness > 0, delta |-> delta_fitness, sol |-> sol]

flip_delta_eval(sol, i) ==
    LET delta_fitness == IF sol.lst[i + 1] = 0 THEN 1 ELSE -1
    IN [improved |-> delta_fitness > 0, delta |-> delta_fitness, sol |-> sol]

(* Variant of flip_with_delta that flips the value and leaves the fitness  *)
(* as it was.                                                              *)
flip_with_delta_stale_fitness(sol, i, delta_fitness) ==
    [sol EXCEPT !.lst = [@ EXCEPT ![i + 1] = IF @ = 0 THEN 1 ELSE 0],
                !.invalid = FALSE]

flip_with_delta(sol, i, delta_fitness) ==
    [sol EXCEPT !.fitness = @ + delta_fitness,
                !.lst = [@ EXCEPT ![i + 1] = IF @ = 0 THEN 1 ELSE 0],
                !.invalid = FALSE]

(* new_sol.lst[i] = 0 if (new_sol.lst[i] == 1) else 1 *)
FlipAt(lst, i) == [lst EXCEPT ![i + 1] = IF @ = 1 THEN 0 ELSE 1]

deepcopy(sol) == sol

(* ---------------- flip_neighbour_explorer ---------------- *)
(* The locals of the explorer while it scans; arg is the caller's solution. *)
ExplorerLocals(sol) ==
    [improved |-> FALSE, best_delta_fitness |-> 0, best_sol |-> deepcopy(sol), best_i |-> 0,
     delta_fitness |-> 0, brk |-> FALSE, err |-> NoError, arg |-> sol]

(* One pass of the for loop body on a delta-evaluating problem. *)
ScanDelta(p, st, i, first_improvement) ==
    LET r == flip_delta_eval(st.arg, i)
        st1 == [st EXCEPT !.improved = r.improved, !.delta_fitness = r.delta, !.arg = r.sol]
    IN IF r.improved
       THEN LET st2 == IF strictly_better(p, r.delta, st1.best_delta_fitness)
                       THEN [st1 EXCEPT !.best_delta_fitness = r.delta, !.best_i = i]
                       ELSE st1
            IN [st2 EXCEPT !.brk = first_improvement]
       ELSE st1

(* Variant of ScanFull that flips and evaluates the caller's solution       *)
(* itself instead of a copy of it.                                         *)
ScanFull_in_place(p, st, i, first_improvement) ==
    LET flipped == [st.arg EXCEPT !.lst = FlipAt(@, i)]
        e == full_eval(p, flipped)
        new_sol == e.sol
    IN IF e.err # NoError THEN [st EXCEPT !.err = e.err, !.arg = flipped]
       ELSE IF strictly_better(p, new_sol.fitness, st.arg.fitness)
       THEN LET st1 == [st EXCEPT !.improved = TRUE, !.arg = new_sol]
                st2 == IF strictly_better(p, new_sol.fitness, st1.best_sol.fitness)
                       THEN [st1 EXCEPT !.best_sol = new_sol, !.best_i = i]
                       ELSE st1
            IN [st2 EXCEPT !.brk = first_improvement]
       ELSE [st EXCEPT !.arg = new_sol]

(* One pass of the for loop body on a problem without delta evaluation. *)
ScanFull(p, st, i, first_improvement) ==
    LET copied == deepcopy(st.arg)
        flipped == [copied EXCEPT !.lst = FlipAt(@, i)]
        e == full_eval(p, flipped)
        new_sol == e.sol
    IN IF e.err # NoError THEN [st EXCEPT !.err = e.err]
       ELSE IF strictly_better(p, new_sol.fitness, st.arg.fitness)
       THEN LET st1 == [st EXCEPT !.improved = TRUE]
                st2 == IF strictly_better(p, new_sol.fitness, st1.best_sol.fitness)
                       THEN [st1 EXCEPT !.best_sol = new_sol, !.best_i = i]
                       ELSE st1
            IN [st2 EXCEPT !.brk = first_improvement]
       ELSE st

ScanStep(p, st, i, first_improvement) ==
    IF has_flip_delta_eval(p) THEN ScanDelta(p, st, i, first_improvement)
    ELSE ScanFull(p, st, i, first_improvement)

(* for i in indices: ... with break and with an exception ending the scan *)
RECURSIVE ScanLoop(_, _, _, _, _)
ScanLoop(p, st, indices, k, first_improvement) ==
    IF k > Len(indices) \/ st.brk \/ st.err # NoError THEN st
    ELSE ScanLoop(p, ScanStep(p, st, indices[k], first_improvement), indices, k + 1,
                  first_improvement)

(* indices is the order in which the positions are scanned: the shuffled    *)
(* list under first improvement, list(range(n)) otherwise.  The result:    *)
(* err (an exception left the call), improved and sol (the returned pair), *)
(* arg (the caller's solution after the call), same (the returned object   *)
(* is the caller's solution itself, not a copy).                           *)
flip_neighbour_explorer(sol, p, first_improvement, indices) ==
    IF Len(sol.lst) = 0
    THEN [err |-> "IndexError", improved |-> FALSE, sol |-> NoSol, arg |-> sol,
          same |-> FALSE]
    ELSE LET st == ScanLoop(p, ExplorerLocals(sol), indices, 1, first_improvement)
         IN IF st.err # NoError
            THEN [err |-> st.err, improved |-> FALSE, sol |-> NoSol, arg |-> st.arg,
                  same |-> FALSE]
            ELSE IF st.improved
            THEN IF has_flip_delta_eval(p)
                 THEN [err |-> NoError, improved |-> TRUE,
                       sol |-> flip_with_delta(deepcopy(st.arg), st.best_i, st.delta_fitness),
                       arg |-> st.arg, same |-> FALSE]
                 ELSE [err |-> NoError, improved |-> TRUE, sol |-> st.best_sol,
                       arg |-> st.arg, same |-> FALSE]
            ELSE [err |-> NoError, improved |-> FALSE, sol |-> st.arg, arg |-> st.arg,
                  same |-> TRUE]

(* The orders random.shuffle can leave in indices (line 75), or the index order. *)
ScanOrders(sol, first_improvement) ==
    IF first_improvement THEN Shuffles(Len(sol.lst)) ELSE {RangeList(Len(sol.lst))}

(* ---------------- two_rnd_flips ---------------- *)
(* The body of two_rnd_flips after positions i and j have been drawn.  A    *)
(* position outside the list raises IndexError at the first line reading it. *)
(* Variant of OneMax_two_rnd_flips that adjusts the fitness for position i only. *)
OneMax_two_rnd_flips_one_delta(sol, i, j) ==
    IF i >= Len(sol.lst) \/ j >= Len(sol.lst) THEN [err |-> "IndexError", sol |-> sol]
    ELSE LET delta_fitness == IF sol.lst[i + 1] = 0 THEN 1 ELSE -1
         IN [err |-> NoError,
             sol |-> [sol EXCEPT !.fitness = @ + delta_fitness,
                                 !.lst = FlipAt(FlipAt(@, i), j),
                                 !.invalid = FALSE]]

OneMax_two_rnd_flips(sol, i, j) ==
    IF i >= Len(sol.lst) \/ j >= Len(sol.lst) THEN [err |-> "IndexError", sol |-> sol]
    ELSE LET delta_fitness == (IF sol.lst[i + 1] = 0 THEN 1 ELSE -1)
                              + (IF sol.lst[j + 1] = 0 THEN 1 ELSE -1)
         IN [err |-> NoError,
             sol |-> [sol EXCEPT !.fitness = @ + delta_fitness,
                                 !.lst = FlipAt(FlipAt(@, i), j),
                                 !.invalid = FALSE]]

FullEval_two_rnd_flips(p, sol, i, j) ==
    IF i >= Len(sol.lst) THEN [err |-> "IndexError", sol |-> sol]
    ELSE LET s1 == [sol EXCEPT !.lst = FlipAt(@, i)]
         IN IF j >= Len(sol.lst) THEN [err |-> "IndexError", sol |-> s1]
            ELSE full_eval(p, [s1 EXCEPT !.lst = FlipAt(@, j)])

two_rnd_flips(p, sol, i, j) ==
    IF p.kind = "OneMax" THEN OneMax_two_rnd_flips(sol, i, j)
    ELSE FullEval_two_rnd_flips(p, sol, i, j)

(* ---------------- logging ---------------- *)
(* logger(filename) attaches a new FileHandler and a new StreamHandler to  *)
(* the process-wide logger "LON_logger".                                   *)
RunHandlers == {"FileHandler", "StreamHandler"}

logger(attached) == attached \cup RunHandlers

close_handlers(attached) == {}

(* ---------------- acceptance step of ils (lines 167-174) ---------------- *)
(* The result: the new best_lo and counter; replaced is TRUE when line 168 *)
(* rebinds best_lo.                                                        *)
(* Variant of Accept that leaves the counter alone when lo is rejected. *)
Accept_no_increment(p, best, lo_, cnt) ==
    IF better_or_equal(p, lo_.fitness, best.fitness)
    THEN LET new_best == deepcopy(lo_)
         IN [best_lo |-> new_best, replaced |-> TRUE,
             cnt |-> IF strictly_better(p, lo_.fitness, new_best.fitness) THEN 0 ELSE cnt + 1]
    ELSE [best_lo |-> best, replaced |-> FALSE, cnt |-> cnt]

(* Variant of Accept that replaces best_lo by lo whatever their fitness. *)
Accept_always(p, best, lo_, cnt) ==
    [best_lo |-> deepcopy(lo_), replaced |-> TRUE, cnt |-> cnt + 1]

(* Variant of Accept in which the strict check is made against best_lo as   *)
(* it was before line 168 replaced it.                                     *)
Accept_check_before_replace(p, best, lo_, cnt) ==
    IF better_or_equal(p, lo_.fitness, best.fitness)
    THEN [best_lo |-> deepcopy(lo_), replaced |-> TRUE,
          cnt |-> IF strictly_better(p, lo_.fitness, best.fitness) THEN 0 ELSE cnt + 1]
    ELSE [best_lo |-> best, replaced |-> FALSE, cnt |-> cnt + 1]

Accept(p, best, lo_, cnt) ==
    IF better_or_equal(p, lo_.fitness, best.fitness)
    THEN LET new_best == deepcopy(lo_)
         IN [best_lo |-> new_best, replaced |-> TRUE,
             cnt |-> IF strictly_better(p, lo_.fitness, new_best.fitness) THEN 0 ELSE cnt + 1]
    ELSE [best_lo |-> best, replaced |-> FALSE, cnt |-> cnt + 1]

(* ---------------- the inputs of a run ---------------- *)
(* The [value, weight] pairs of the Knapsack instances: the value of an     *)
(* item falls as its weight rises.                                         *)
ItemKinds == {vw \in (1..MaxItem) \X (1..MaxItem) : vw[1] + vw[2] = MaxItem + 1}

KnapsackItems(n) ==
    {[k \in 1..n |-> <<k, vw[k][1], vw[k][2]>>] : vw \in [1..n -> ItemKinds]}

Problems ==
    {OneMax(n) : n \in 0..MaxN}
    \cup UNION {{Knapsack(n, c, items) : c \in 0..MaxItem, items \in KnapsackItems(n)} :
                n \in 0..MaxN}
    \cup UNION {{NumberPartitioning(n, a) : a \in [1..n -> 1..MaxItem]} : n \in 0..MaxN}

(* s = Solution(); s.init_rnd_bitstring(m)  (lines 214-215), for lists of    *)
(* every length up to MaxN, the dimension of the instance or not.          *)
InitialSolutions(p) ==
    {init_rnd_bitstring(Solution(<<>>, 0, FALSE), lst) :
        lst \in UNION {Bitstrings(m) : m \in 0..MaxN}}

(* ---------------- object identity ---------------- *)
(* The names sol, cur, lo, best_lo and s refer to Python objects; sh is the *)
(* set of pairs {x, y} of names that refer to the same object, so that an  *)
(* in-place change made through one name shows through the other.         *)
Names == {"sol", "cur", "lo", "best_lo", "s"}

(* x is rebound to a new object *)
Alone(sh, x) == {e \in sh : x \notin e}

(* x = y: x is rebound to the object y refers to *)
Bind(sh, x, y) ==
    IF x = y THEN sh
    ELSE Alone(sh, x) \cup {{x, y}}
         \cup {{x, z} : z \in {w \in Names \ {x, y} : {y, w} \in Alone(sh, x)}}

(* Variant of CopyBinding in which the copy is forgotten: x = y *)
CopyBinding_alias(sh, x, y) == Bind(sh, x, y)

(* x = copy.deepcopy(y): x refers to an object of its own *)
CopyBinding(sh, x, y) == Alone(sh, x)

(* two_rnd_flips changes the object of s in place: the value seen through   *)
(* the name x afterwards, where old is its value before and new the value  *)
(* of s after the call.                                                    *)
ThroughS(sh, x, old, new) == IF {"s", x} \in sh THEN new ELSE old

(* ---------------- state ---------------- *)
VARIABLES
    problem_instance,     \* argument of ils
    first_improvement,    \* argument of ils
    non_impr_iters,       \* argument of ils
    sol,                  \* argument of ils: the initial solution
    pc,                   \* position in ils
    cur,                  \* the solution hc is working on
    lo,                   \* local variable lo of ils
    best_lo,              \* local variable best_lo of ils
    s,                    \* local variable s of ils
    non_improvement_cnt,  \* local variable of ils
    i, j,                 \* locals of two_rnd_flips
    handlers,             \* handlers attached to the logger "LON_logger"
    closed,               \* handlers that have been flushed and closed
    log,                  \* lines written to the trajectory log of this run
    error,                \* the exception that ended the run, NoError when none
    explored,             \* the last call of flip_neighbour_explorer: argument and result
    perturbed,            \* the last call of two_rnd_flips: solution before and after
    iters,                \* number of times the body of the while loop was entered
    iter_best,            \* best_lo as it was when the current loop body was entered
    shared,               \* pairs of names that refer to the same Solution object
    hc_calls              \* calls of neighbour_explorer made by the current call of hc

vars == <<problem_instance, first_improvement, non_impr_iters, sol, pc, cur, lo, best_lo, s,
          non_improvement_cnt, i, j, handlers, closed, log, error, explored, perturbed,
          iters, iter_best, shared, hc_calls>>

args == <<problem_instance, first_improvement, non_impr_iters, sol>>

NoCall == [arg |-> NoSol, res |-> [err |-> NoError, improved |-> FALSE, sol |-> NoSol,
                                   arg |-> NoSol, same |-> FALSE]]

NoFlips == [before |-> NoSol, after |-> NoSol, err |-> NoError]

Init ==
    /\ problem_instance \in Problems
    /\ first_improvement \in BOOLEAN
    /\ non_impr_iters \in 0..MaxBudget
    /\ sol \in InitialSolutions(problem_instance)
    /\ pc = "main"
    /\ cur = NoSol /\ lo = NoSol /\ best_lo = NoSol /\ s = NoSol
    /\ non_improvement_cnt = 0
    /\ i = 0 /\ j = 0
    /\ handlers = {} /\ closed = {}
    /\ log = <<>>
    /\ error = NoError
    /\ explored = NoCall /\ perturbed = NoFlips
    /\ iters = 0 /\ iter_best = NoSol
    /\ shared = {} /\ hc_calls = 0

(* main, line 216: instance.full_eval(s); the exception of a failed         *)
(* assertion ends the program before ils is called.                        *)
MainFullEval ==
    /\ pc = "main"
    /\ LET e == full_eval(problem_instance, sol)
       IN /\ sol' = e.sol
          /\ IF e.err # NoError
             THEN error' = e.err /\ pc' = "error"
             ELSE pc' = "start" /\ UNCHANGED error
    /\ UNCHANGED <<problem_instance, first_improvement, non_impr_iters, cur, lo, best_lo, s,
                   non_improvement_cnt, i, j, handlers, closed, log, explored, perturbed,
                   iters, iter_best, shared, hc_calls>>

(* line 158: lon_logger = logger(logname); then hc is entered with sol *)
IlsStart ==
    /\ pc = "start"
    /\ handlers' = logger(handlers)
    /\ cur' = sol
    /\ shared' = Bind(shared, "cur", "sol")
    /\ hc_calls' = 0
    /\ pc' = "hc_first"
    /\ UNCHANGED <<args, lo, best_lo, s, non_improvement_cnt, i, j, closed, log, error,
                   explored, perturbed, iters, iter_best>>

(* One call of neighbour_explorer inside hc (lines 118-121), in the first   *)
(* hill climb of ils (line 159); when hc returns, lines 160-161 follow.    *)
HcFirst ==
    /\ pc = "hc_first"
    /\ \E indices \in ScanOrders(cur, first_improvement) :
         LET r == flip_neighbour_explorer(cur, problem_instance, first_improvement, indices)
         IN /\ explored' = [arg |-> cur, res |-> r]
            /\ IF r.err # NoError
               THEN /\ error' = r.err /\ pc' = "error"
                    /\ UNCHANGED <<cur, lo, best_lo, non_improvement_cnt, shared>>
               ELSE IF r.improved
               THEN /\ cur' = r.sol
                    /\ shared' = IF r.same THEN shared ELSE Alone(shared, "cur")
                    /\ UNCHANGED <<pc, error, lo, best_lo, non_improvement_cnt>>
               ELSE /\ cur' = r.sol
                    /\ lo' = r.sol
                    /\ best_lo' = deepcopy(r.sol)
                    /\ shared' = CopyBinding(
                                     Bind(IF r.same THEN shared ELSE Alone(shared, "cur"),
                                          "lo", "cur"),
                                     "best_lo", "lo")
                    /\ non_improvement_cnt' = 0
                    /\ pc' = "while"
                    /\ UNCHANGED error
    /\ hc_calls' = hc_calls + 1
    /\ UNCHANGED <<args, s, i, j, handlers, closed, log, perturbed, iters, iter_best>>

(* The same inside the loop (line 165); when hc returns, lo is bound. *)
HcLoop ==
    /\ pc = "hc_loop"
    /\ \E indices \in ScanOrders(cur, first_improvement) :
         LET r == flip_neighbour_explorer(cur, problem_instance, first_improvement, indices)
         IN /\ explored' = [arg |-> cur, res |-> r]
            /\ IF r.err # NoError
               THEN /\ error' = r.err /\ pc' = "error"
                    /\ UNCHANGED <<cur, lo, shared>>
               ELSE IF r.improved
               THEN /\ cur' = r.sol
                    /\ shared' = IF r.same THEN shared ELSE Alone(shared, "cur")
                    /\ UNCHANGED <<pc, error, lo>>
               ELSE /\ cur' = r.sol
                    /\ lo' = r.sol
                    /\ shared' = Bind(IF r.same THEN shared ELSE Alone(shared, "cur"),
                                      "lo", "cur")
                    /\ pc' = "log"
                    /\ UNCHANGED error
    /\ hc_calls' = hc_calls + 1
    /\ UNCHANGED <<args, best_lo, s, non_improvement_cnt, i, j, handlers, closed, log,
                   perturbed, iters, iter_best>>

(* line 162 true, line 163: s = copy.deepcopy(best_lo) *)
LoopEnter ==
    /\ pc = "while"
    /\ non_improvement_cnt < non_impr_iters
    /\ s' = deepcopy(best_lo)
    /\ shared' = CopyBinding(shared, "s", "best_lo")
    /\ iters' = iters + 1
    /\ iter_best' = best_lo
    /\ pc' = "flips_i"
    /\ UNCHANGED <<args, cur, lo, best_lo, non_improvement_cnt, i, j, handlers, closed, log,
                   error, explored, perturbed, hc_calls>>

(* line 162 false, lines 175-176: close_handlers and return best_lo *)
LoopExit ==
    /\ pc = "while"
    /\ ~(non_improvement_cnt < non_impr_iters)
    /\ closed' = closed \cup handlers
    /\ handlers' = close_handlers(handlers)
    /\ pc' = "done"
    /\ UNCHANGED <<args, cur, lo, best_lo, s, non_improvement_cnt, i, j, log, error,
                   explored, perturbed, iters, iter_best, shared, hc_calls>>

(* two_rnd_flips: i = random.randint(0, self.n - 1); j = i.  randint raises *)
(* ValueError on the empty range.                                          *)
FlipsDrawI ==
    /\ pc = "flips_i"
    /\ IF problem_instance.n = 0
       THEN /\ error' = "ValueError" /\ pc' = "error"
            /\ UNCHANGED <<i, j>>
       ELSE /\ \E r \in 0..(problem_instance.n - 1) : i' = r /\ j' = r
            /\ pc' = "flips_j"
            /\ UNCHANGED error
    /\ UNCHANGED <<args, cur, lo, best_lo, s, non_improvement_cnt, handlers, closed, log,
                   explored, perturbed, iters, iter_best, shared, hc_calls>>

(* Variant of FlipsDrawJ that draws j once and never retries. *)
FlipsDrawJ_no_retry ==
    /\ pc = "flips_j"
    /\ \E r \in 0..(problem_instance.n - 1) :
         /\ j' = r
         /\ LET f == two_rnd_flips(problem_instance, s, i, r)
            IN /\ perturbed' = [before |-> s, after |-> f.sol, err |-> f.err]
               /\ s' = f.sol
               /\ sol' = ThroughS(shared, "sol", sol, f.sol)
               /\ lo' = ThroughS(shared, "lo", lo, f.sol)
               /\ best_lo' = ThroughS(shared, "best_lo", best_lo, f.sol)
               /\ IF f.err # NoError
                  THEN /\ error' = f.err /\ pc' = "error"
                       /\ cur' = ThroughS(shared, "cur", cur, f.sol)
                       /\ UNCHANGED <<shared, hc_calls>>
                  ELSE /\ cur' = f.sol /\ pc' = "hc_loop"
                       /\ shared' = Bind(shared, "cur", "s")
                       /\ hc_calls' = 0
                       /\ UNCHANGED error
    /\ UNCHANGED <<problem_instance, first_improvement, non_impr_iters,
                   non_improvement_cnt, i, handlers, closed, log, explored, iters,
                   iter_best>>

(* two_rnd_flips: one pass of `while j == i: j = random.randint(0, n - 1)`; *)
(* when the loop is left the rest of two_rnd_flips runs and hc is entered  *)
(* with s (line 165).                                                      *)
FlipsDrawJ ==
    /\ pc = "flips_j"
    /\ \E r \in 0..(problem_instance.n - 1) :
         /\ j' = r
         /\ IF r = i
            THEN UNCHANGED <<pc, s, sol, lo, best_lo, cur, error, perturbed, shared, hc_calls>>
            ELSE LET f == two_rnd_flips(problem_instance, s, i, r)
                 IN /\ perturbed' = [before |-> s, after |-> f.sol, err |-> f.err]
                    /\ s' = f.sol
                    /\ sol' = ThroughS(shared, "sol", sol, f.sol)
                    /\ lo' = ThroughS(shared, "lo", lo, f.sol)
                    /\ best_lo' = ThroughS(shared, "best_lo", best_lo, f.sol)
                    /\ IF f.err # NoError
                       THEN /\ error' = f.err /\ pc' = "error"
                            /\ cur' = ThroughS(shared, "cur", cur, f.sol)
                            /\ UNCHANGED <<shared, hc_calls>>
                       ELSE /\ cur' = f.sol /\ pc' = "hc_loop"
                            /\ shared' = Bind(shared, "cur", "s")
                            /\ hc_calls' = 0
                            /\ UNCHANGED error
    /\ UNCHANGED <<problem_instance, first_improvement, non_impr_iters,
                   non_improvement_cnt, i, handlers, closed, log, explored, iters,
                   iter_best>>

(* Variant of LogAttempt that writes a record only for an attempt that will *)
(* be accepted.                                                            *)
LogAttempt_accepted_only ==
    /\ pc = "log"
    /\ log' = IF better_or_equal(problem_instance, lo.fitness, best_lo.fitness)
              THEN Append(log, <<Solution__str__(best_lo), Solution__str__(lo)>>)
              ELSE log
    /\ pc' = "accept"
    /\ UNCHANGED <<args, cur, lo, best_lo, s, non_improvement_cnt, i, j, handlers, closed,
                   error, explored, perturbed, iters, iter_best, shared, hc_calls>>

(* line 166: lon_logger.info("%s %s", str(best_lo), str(lo)) *)
LogAttempt ==
    /\ pc = "log"
    /\ log' = IF "FileHandler" \in handlers
              THEN Append(log, <<Solution__str__(best_lo), Solution__str__(lo)>>)
              ELSE log
    /\ pc' = "accept"
    /\ UNCHANGED <<args, cur, lo, best_lo, s, non_improvement_cnt, i, j, handlers, closed,
                   error, explored, perturbed, iters, iter_best, shared, hc_calls>>

(* lines 167-174 *)
AcceptStep ==
    /\ pc = "accept"
    /\ LET acc == Accept(problem_instance, best_lo, lo, non_improvement_cnt)
       IN /\ best_lo' = acc.best_lo
          /\ non_improvement_cnt' = acc.cnt
          /\ shared' = IF acc.replaced THEN CopyBinding(shared, "best_lo", "lo") ELSE shared
    /\ pc' = "while"
    /\ UNCHANGED <<args, cur, lo, s, i, j, handlers, closed, log, error, explored,
                   perturbed, iters, iter_best, hc_calls>>

Next ==
    \/ MainFullEval
    \/ IlsStart
    \/ HcFirst
    \/ HcLoop
    \/ LoopEnter
    \/ LoopExit
    \/ FlipsDrawI
    \/ FlipsDrawJ
    \/ LogAttempt
    \/ AcceptStep

Spec == Init /\ [][Next]_vars

(* The random generator eventually returns a value that ends a retry loop  *)
(* that some value can end, and the interpreter keeps running.             *)
FairSpec == Spec /\ WF_vars(Next)

(* ======================= properties ======================= *)
(* fitness of x is what full_eval computes from its values, and invalid is false *)
Evaluated(p, x) ==
    /\ ~x.invalid
    /\ LET e == full_eval(p, x)
       IN e.err = NoError /\ e.sol.fitness = x.fitness

(* the solution x with position k flipped, fully re-evaluated *)
Neighbour(p, x, k) == full_eval(p, [x EXCEPT !.lst = FlipAt(@, k)]).sol

Positions(x) == 0..(Len(x.lst) - 1)

HasBetterFlip(p, x) ==
    \E k \in Positions(x) : strictly_better(p, Neighbour(p, x, k).fitness, x.fitness)

Hamming(u, v) == Cardinality({k \in 1..Len(u) : u[k] # v[k]})

(* the initial solution has the dimension of the instance and is evaluated *)
InputOK == Len(sol.lst) = problem_instance.n /\ Evaluated(problem_instance, sol)

(* hc has returned and lo holds its result *)
HcReturned == pc \in {"while", "log", "accept", "done"}

(* C1: started from an evaluated solution, the solution hc returns has no   *)
(* strictly better single-flip neighbour, and the explorer run on it in    *)
(* either mode, in any scan order, reports no improvement.                 *)
C1_LocalOptimum ==
    (InputOK /\ HcReturned) =>
        /\ ~HasBetterFlip(problem_instance, lo)
        /\ \A fi \in BOOLEAN : \A indices \in ScanOrders(lo, fi) :
             ~flip_neighbour_explorer(lo, problem_instance, fi, indices).improved

C3_Terminates ==
    (InputOK /\ problem_instance.n >= 1 /\ pc = "flips_j") => ENABLED <<FlipsDrawJ>>_vars

(* C4: each pass of the loop appends exactly one record (best_lo as it was  *)
(* when the pass began, lo) before the acceptance step, whether or not lo  *)
(* is then accepted; the log holds one record per pass; records already    *)
(* written are never changed or removed.                                   *)
C4_LoggedBeforeAccept ==
    /\ [](/\ pc = "accept" =>
               /\ Len(log) = iters
               /\ log[iters] = <<Solution__str__(iter_best), Solution__str__(lo)>>
               /\ best_lo = iter_best
          /\ pc \in {"while", "done"} => Len(log) = iters
          /\ pc \in {"flips_i", "flips_j", "hc_loop", "log"} => Len(log) = iters - 1)
    /\ [][/\ Len(log') >= Len(log)
          /\ \A k \in 1..Len(log) : log'[k] = log[k]]_vars

C4_Witness ==
    /\ pc = "done" /\ iters = 1 /\ Len(log) = 1
    /\ strictly_better(problem_instance, best_lo.fitness, lo.fitness)

(* C5: when a run of ils has ended, by return or by an exception, the       *)
(* handlers it attached have been removed from the logger and closed.      *)
C5_HandlersReleased ==
    pc \in {"done", "error"} => (handlers = {} /\ RunHandlers \subseteq closed)

(* C6: under first improvement, started from an evaluated solution, every   *)
(* call of the explorer that returns gives a solution at least as good as  *)
(* its argument, and every solution hc holds is at least as good as the    *)
(* one hc was started with.                                                *)
C6_FirstImprovementMonotone ==
    (InputOK /\ first_improvement) =>
        /\ (explored # NoCall /\ explored.res.err = NoError) =>
              better_or_equal(problem_instance, explored.res.sol.fitness,
                              explored.arg.fitness)
        /\ pc = "hc_first" =>
              better_or_equal(problem_instance, cur.fitness, sol.fitness)
        /\ pc = "hc_loop" =>
              better_or_equal(problem_instance, cur.fitness, perturbed.after.fitness)

C6_Witness ==
    /\ InputOK /\ first_improvement
    /\ pc = "hc_loop" /\ explored.res.improved /\ explored.arg # perturbed.after

(* C7: on OneMax, for the evaluated solution the explorer was called with   *)
(* and every position k, flip_delta_eval gives improved = (the fully       *)
(* re-evaluated neighbour is strictly greater) and delta = (the            *)
(* neighbour's fitness minus the current one) and leaves the solution      *)
(* alone, and flip_with_delta with that delta gives the same values and    *)
(* fitness as flipping k and calling full_eval.                            *)
C7_DeltaEqualsFullEval ==
    (problem_instance.kind = "OneMax" /\ explored # NoCall
        /\ Evaluated(problem_instance, explored.arg)) =>
        \A k \in Positions(explored.arg) :
            LET x == explored.arg
                r == flip_delta_eval(x, k)
                full == Neighbour(problem_instance, x, k)
                applied == flip_with_delta(deepcopy(x), k, r.delta)
            IN /\ r.improved = (full.fitness > x.fitness)
               /\ r.delta = full.fitness - x.fitness
               /\ r.sol = x
               /\ applied.lst = full.lst
               /\ applied.fitness = full.fitness
               /\ applied.invalid = full.invalid

C7_Witness ==
    /\ problem_instance.kind = "OneMax" /\ Evaluated(problem_instance, explored.arg)
    /\ Len(explored.arg.lst) = MaxN
    /\ explored.res.improved
    /\ \E k \in Positions(explored.arg) : explored.arg.lst[k + 1] = 1

(* C8: on an instance of dimension n >= 2, when two_rnd_flips has returned  *)
(* the two positions it chose differ, and the solution differs from the    *)
(* one it was given in exactly two positions.                              *)
C8_DistinctFlips ==
    (problem_instance.n >= 2 /\ perturbed # NoFlips /\ perturbed.err = NoError) =>
        /\ Hamming(perturbed.before.lst, perturbed.after.lst) = 2
        /\ pc \in {"hc_loop", "log", "accept"} => i # j

C8_Witness ==
    /\ problem_instance.n >= 2 /\ pc = "hc_loop" /\ perturbed.err = NoError
    /\ cur = perturbed.after

(* C9: when two_rnd_flips returns on a solution that was evaluated, the     *)
(* solution is evaluated: invalid is false and the fitness is the one      *)
(* full_eval computes from the new values.                                 *)
C9_PerturbedEvaluated ==
    (perturbed # NoFlips /\ perturbed.err = NoError
        /\ Evaluated(problem_instance, perturbed.before)) =>
        Evaluated(problem_instance, perturbed.after)

C9_Witness ==
    /\ problem_instance.kind = "OneMax" /\ perturbed # NoFlips /\ perturbed.err = NoError
    /\ Evaluated(problem_instance, perturbed.before)
    /\ perturbed.after.fitness = perturbed.before.fitness

(* C10: the explorer called on the empty solution returns (False, the       *)
(* input); and whenever no flip of an evaluated solution improves, it      *)
(* returns (False, the input).                                             *)
C10_EmptyExplorer ==
    explored # NoCall =>
        /\ Len(explored.arg.lst) = 0 =>
              /\ explored.res.err = NoError
              /\ ~explored.res.improved
              /\ explored.res.same
              /\ explored.res.sol = explored.arg
        /\ (Evaluated(problem_instance, explored.arg)
              /\ ~HasBetterFlip(problem_instance, explored.arg)) =>
              (explored.res.err = NoError => ~explored.res.improved)

(* C12: for every variant, full_eval on a solution whose length is not the  *)
(* dimension of the instance ends in an AssertionError that aborts the     *)
(* run, and leaves the solution as init_rnd_bitstring made it: fitness     *)
(* not written, invalid not cleared.                                       *)
C12_DimensionMismatchFatal ==
    (pc # "main" /\ Len(sol.lst) # problem_instance.n) =>
        /\ pc = "error" /\ error = "AssertionError"
        /\ sol = init_rnd_bitstring(Solution(<<>>, 0, FALSE), sol.lst)

C14_BestImprovement ==
    (explored # NoCall /\ ~first_improvement
        /\ Len(explored.arg.lst) = problem_instance.n
        /\ Evaluated(problem_instance, explored.arg)
        /\ explored.res.err = NoError) =>
        /\ explored.res.improved = HasBetterFlip(problem_instance, explored.arg)
        /\ explored.res.improved =>
              /\ Hamming(explored.arg.lst, explored.res.sol.lst) = 1
              /\ \A k \in Positions(explored.arg) :
                    better_or_equal(problem_instance, explored.res.sol.fitness,
                                    Neighbour(problem_instance, explored.arg, k).fitness)

(* the position in which the lists u and v of equal length differ first *)
ChangedPosition(u, v) == (CHOOSE k \in 1..Len(u) : u[k] # v[k]) - 1

(* C15: when the explorer reports an improvement on an evaluated solution, *)
(* in either mode, the solution it returns differs from the input in       *)
(* exactly one position and is evaluated (invalid false, fitness the one   *)
(* full_eval computes); on the delta path the fitness was moved by the     *)
(* delta of the position that was flipped.                                 *)
C15_ImprovingResultEvaluated ==
    (explored # NoCall /\ explored.res.err = NoError /\ explored.res.improved
        /\ Evaluated(problem_instance, explored.arg)) =>
        /\ Hamming(explored.arg.lst, explored.res.sol.lst) = 1
        /\ Evaluated(problem_instance, explored.res.sol)
        /\ has_flip_delta_eval(problem_instance) =>
              explored.res.sol.fitness - explored.arg.fitness =
                  flip_delta_eval(explored.arg,
                                  ChangedPosition(explored.arg.lst, explored.res.sol.lst)).delta

(* best improvement on the delta path, where the position flipped (the      *)
(* first) is not the position scanned last                                 *)
C15_Witness ==
    /\ explored # NoCall /\ explored.res.err = NoError /\ explored.res.improved
    /\ has_flip_delta_eval(problem_instance) /\ ~first_improvement
    /\ Len(explored.arg.lst) = MaxN
    /\ Evaluated(problem_instance, explored.arg)
    /\ \A k \in 1..MaxN : explored.arg.lst[k] = 0
    /\ explored.res.sol.lst[1] = 1

(* C16: the explorer leaves the solution it is given as it was; when it     *)
(* reports no improvement it returns that very object (hc then binds lo    *)
(* to it), and when it reports an improvement it returns an object of its  *)
(* own, which no other name refers to.                                     *)
C16_InputNotMutated ==
    explored # NoCall =>
        /\ explored.res.arg = explored.arg
        /\ (explored.res.err = NoError /\ ~explored.res.improved) =>
              /\ explored.res.same
              /\ explored.res.sol = explored.arg
              /\ pc \in {"while", "log"} => {"lo", "cur"} \in shared
        /\ (explored.res.err = NoError /\ explored.res.improved) =>
              /\ ~explored.res.same
              /\ pc \in {"hc_first", "hc_loop"} =>
                    \A x \in Names \ {"cur"} : {"cur", x} \notin shared

C16_Witness ==
    /\ explored # NoCall /\ explored.res.err = NoError /\ explored.res.improved
    /\ ~has_flip_delta_eval(problem_instance)
    /\ pc \in {"hc_first", "hc_loop"}
    /\ cur = explored.res.sol /\ cur # explored.arg

(* C17: from the start of a pass of the loop until its acceptance step      *)
(* best_lo is unchanged, whatever two_rnd_flips and hc do to s and its     *)
(* successors, also when the pass ends in an exception; best_lo never      *)
(* shares its object with sol, cur, lo or s, and after an acceptance that  *)
(* replaced it, it has the value of lo.                                    *)
C17_NoAliasing ==
    /\ \A x \in Names \ {"best_lo"} : {"best_lo", x} \notin shared
    /\ (iters >= 1 /\ pc \in {"flips_i", "flips_j", "hc_loop", "log", "accept", "error"}) =>
          best_lo = iter_best
    /\ (iters >= 1 /\ pc = "while"
          /\ better_or_equal(problem_instance, lo.fitness, iter_best.fitness)) =>
          best_lo = lo

C17_Witness ==
    /\ pc = "while" /\ iters >= 1
    /\ perturbed.before = iter_best /\ perturbed.after # iter_best
    /\ best_lo = lo /\ best_lo # iter_best

(* C18: the acceptance step replaces best_lo by lo exactly when lo is       *)
(* better than or equal to it and leaves it unchanged when lo is strictly  *)
(* worse; the solution ils returns is at least as good as the first local  *)
(* optimum and as every lo that was logged.                                *)
C18_BestNeverWorse ==
    /\ (iters >= 1 /\ pc \in {"while", "done"}) =>
          IF better_or_equal(problem_instance, lo.fitness, iter_best.fitness)
          THEN best_lo = lo
          ELSE best_lo = iter_best
    /\ (iters >= 1 /\ pc \in {"while", "done"}) =>
          better_or_equal(problem_instance, best_lo.fitness, iter_best.fitness)
    /\ pc = "done" =>
          \A k \in 1..Len(log) :
              /\ better_or_equal(problem_instance, best_lo.fitness, log[k][1][1])
              /\ better_or_equal(problem_instance, best_lo.fitness, log[k][2][1])

(* a completed run whose last lo was strictly worse and was rejected *)
C18_Witness ==
    /\ pc = "done" /\ iters >= 1 /\ Len(log) = iters
    /\ strictly_better(problem_instance, iter_best.fitness, lo.fitness)
    /\ best_lo = iter_best

(* the fitness values of the 2^n bitstrings of the dimension of p *)
FitnessLevels(p) ==
    {full_eval(p, init_rnd_bitstring(Solution(<<>>, 0, FALSE), lst)).sol.fitness :
        lst \in Bitstrings(p.n)}

(* C19: on an instance of dimension n >= 1, started from an evaluated       *)
(* solution, every call of the explorer inside hc that reports an          *)
(* improvement returns a solution strictly better than the one it was      *)
(* given (so no solution is visited twice), and a call of hc makes at      *)
(* most as many explorer calls as there are distinct fitness values.       *)
C19_HcStrictlyImproves ==
    (InputOK /\ problem_instance.n >= 1) =>
        /\ (explored # NoCall /\ explored.res.err = NoError /\ explored.res.improved) =>
              strictly_better(problem_instance, explored.res.sol.fitness,
                              explored.arg.fitness)
        /\ hc_calls <= Cardinality(FitnessLevels(problem_instance))

(* a hill climb that needed as many calls as there are fitness values *)
C19_Witness ==
    /\ InputOK /\ problem_instance.n = MaxN /\ HcReturned
    /\ hc_calls = Cardinality(FitnessLevels(problem_instance))
    /\ hc_calls >= 3

====
